---- MODULE Spec2Model ----
(***************************************************************************)
(* Election portal: ranked ballots per position, the hierarchical          *)
(* preference recomputation of models.py (compute_position_winner,         *)
(* compute_all_results), the saved winners snapshot, and the request       *)
(* handlers of app.py that drive them.                                     *)
(*                                                                         *)
(* The database tables are modelled as sequences of rows in rowid order:   *)
(* an INSERT appends a row and an AUTOINCREMENT id is the row's index.      *)
(* A SELECT with ORDER BY returns its rows in that order; one without      *)
(* returns them in the order of the engine's scan, which is the same for   *)
(* every execution of the query on one database: the rowid order of the    *)
(* table, or the key order of an index (voter_index).                      *)
(* ranked_votes is kept as one such sequence per position_code: every      *)
(* query of the source whose result depends on row order selects the rows  *)
(* of a single position, so the order between rows of different positions  *)
(* is never observed.                                                      *)
(***************************************************************************)
EXTENDS Integers, Sequences, FiniteSets, TLC

(***************************************************************************)
(* Bounds of the model.                                                    *)
(***************************************************************************)
\* longest ranked list a voter submits
MaxRank == 2
\* ballots stored before the application stops accepting more (Spec)
MaxBallots == 2
\* ballots stored before the tally harness stops accepting more (SpecTally)
MaxTallyBallots == 3

\* voter hashes (generate_voter_hash of the members), in the order in which
\* the members cast their first ballot: a hash is an opaque token that the
\* code only compares for equality, so which member comes first is immaterial
VoterHashes == <<"h1", "h2", "h3">>

(***************************************************************************)
(* Program constants, cut down to two positions and two nominees.          *)
(***************************************************************************)
\* models.py CATEGORIES: the valid position codes
CATEGORIES == <<"VP", "GS">>

\* models.py CATEGORY_NAMES
CATEGORY_NAMES == [c \in {"VP", "GS"} |->
                     IF c = "VP" THEN "Vice President" ELSE "General Secretary"]

\* seed_candidates.py: nominees of every position but VP
ALL_NOMINEES == <<"A", "B">>

\* seed_candidates.py: nominees for VP; "A" is nominated for VP and the rest
VP_CANDIDATES == <<"A">>

\* Python's None
None == [none |-> TRUE]

Range(s) == {s[i] : i \in DOMAIN s}

RECURSIVE SumSeq(_)
SumSeq(s) == IF s = <<>> THEN 0 ELSE s[1] + SumSeq(Tail(s))

VARIABLES
    candidates,        \* table candidates: rows [name, category], id = index
    ranked_votes,      \* table ranked_votes, per position_code: rows
                       \*   [voter_hash, position_code, candidate_id,
                       \*    preference_rank]
    is_active,         \* table election_positions: is_active per position_code
    election_winners,  \* table election_winners: rows [position_code,
                       \*             candidate_id, candidate_name, vote_count]
    response,          \* what the last request or call returned
    voter_index,       \* how the engine scans ranked_votes for voter hashes:
                       \*   <<>> for a scan of the table, else the hashes in
                       \*   the key order of the index it scans
    requests,          \* per connection (flask g.db): the call in progress on
                       \*   it, with its local variables and its open
                       \*   transaction
    saved,             \* the results handed to the last committed
                       \*   save_election_winners, None before any
    timeline,          \* table election_positions: opens_at and closes_at
                       \*   per position_code, None or [at |-> time]
    now,               \* datetime.now()
    unique_keys,       \* the columns that, with voter_hash and
                       \*   position_code, no two rows of ranked_votes may
                       \*   share (the table's UNIQUE constraints)
    session,           \* per browser: the flask session, None without a
                       \*   'user_id' key, else [user_id |-> id]
    environ            \* os.environ: ADMIN_PASSWORD ("" when unset or
                       \*   empty) and FLASK_ENV

vars == <<candidates, ranked_votes, is_active, election_winners, response,
          voter_index, requests, saved, timeline, now, unique_keys, session,
          environ>>

\* what the handlers of the tally and of the saved winners leave alone
elsewhere == <<timeline, now, unique_keys, session, environ>>

(***************************************************************************)
(* Seeding (seed_candidates.py, app.py auto_initialize).                   *)
(***************************************************************************)
\* the categories dict of seed_candidates, in insertion order
SeedCategories == <<[category |-> "VP", names |-> VP_CANDIDATES],
                    [category |-> "GS", names |-> ALL_NOMINEES]>>

\* INSERT OR IGNORE INTO candidates (name, category): a row that is already
\* there is not inserted again
InsertOrIgnore(table, name, category) ==
    IF \E i \in DOMAIN table : table[i].name = name /\ table[i].category = category
    THEN table
    ELSE Append(table, [name |-> name, category |-> category])

RECURSIVE SeedNames(_, _, _)
SeedNames(table, names, category) ==
    IF names = <<>> THEN table
    ELSE SeedNames(InsertOrIgnore(table, names[1], category), Tail(names), category)

RECURSIVE SeedFrom(_, _)
SeedFrom(table, cats) ==
    IF cats = <<>> THEN table
    ELSE SeedFrom(SeedNames(table, cats[1].names, cats[1].category), Tail(cats))

seed_candidates == SeedFrom(<<>>, SeedCategories)

(***************************************************************************)
(* election_positions, in rank_order (compute_all_results: "VP first, then *)
(* GS, etc.").                                                             *)
(***************************************************************************)
election_positions ==
    [i \in DOMAIN CATEGORIES |->
        [position_code |-> CATEGORIES[i],
         position_name |-> CATEGORY_NAMES[CATEGORIES[i]],
         rank_order    |-> i]]

PositionCodes == Range(CATEGORIES)

CandidateIds == DOMAIN candidates

\* all rows of ranked_votes
RECURSIVE RowsUpTo(_)
RowsUpTo(k) ==
    IF k = 0 THEN <<>> ELSE RowsUpTo(k - 1) \o ranked_votes[CATEGORIES[k]]

AllRows == RowsUpTo(Len(CATEGORIES))

\* SELECT id FROM candidates WHERE id = ? AND category = ?
\* variant: the query has no AND category = ?
IsCandidateOf_AnyCategory(cand_id, category) == cand_id \in DOMAIN candidates

\* SELECT id FROM candidates WHERE id = ? AND category = ? finds a row
IsCandidateOf(cand_id, category) ==
    cand_id \in DOMAIN candidates /\ candidates[cand_id].category = category

(***************************************************************************)
(* compute_position_winner (models.py 482-569).                            *)
(***************************************************************************)
\* the orders in which a SELECT without ORDER BY may return a set of rows:
\* SQL leaves the order to the engine (a table scan returns them as
\* inserted, a scan of an index in the order of its key), so the caller
\* may meet any of them
Arrangements(rows) ==
    {s \in [1 .. Cardinality(rows) -> rows] :
        \A i, j \in 1 .. Cardinality(rows) : i # j => s[i] # s[j]}

\* SELECT DISTINCT voter_hash FROM ranked_votes WHERE position_code = ?
\* each hash with a row for the position once; the lists fetchall() gives
\* under one engine or another
DistinctVoters(position_code) ==
    Arrangements({AllRows[i].voter_hash :
                    i \in {j \in DOMAIN AllRows :
                              AllRows[j].position_code = position_code}})

\* the ids of the candidates of a position
CandidatesOf(position_code) ==
    {id \in DOMAIN candidates : candidates[id].category = position_code}

\* variant: the query has no DISTINCT
FirstSeen_NotDistinct(rows, position_code) ==
    LET mine == SelectSeq(rows, LAMBDA r : r.position_code = position_code)
    IN  [i \in DOMAIN mine |-> mine[i].voter_hash]

\* a scan of the table for the distinct hashes of a position: each hash
\* where the scan first meets it
RECURSIVE FirstSeen(_, _)
FirstSeen(rows, position_code) ==
    IF rows = <<>> THEN <<>>
    ELSE LET rest == FirstSeen(SubSeq(rows, 1, Len(rows) - 1), position_code)
             r    == rows[Len(rows)]
         IN  IF r.position_code = position_code /\ r.voter_hash \notin Range(rest)
             THEN Append(rest, r.voter_hash)
             ELSE rest

\* variant: the query has no WHERE position_code = ?
FetchedVoters_AnyPosition(position_code) ==
    SelectSeq(IF voter_index = <<>> THEN VoterHashes ELSE voter_index,
              LAMBDA h : \E i \in DOMAIN AllRows : AllRows[i].voter_hash = h)

\* voters (line 509) as this database's engine returns them
FetchedVoters(position_code) ==
    IF voter_index = <<>>
    THEN FirstSeen(AllRows, position_code)
    ELSE SelectSeq(voter_index,
                   LAMBDA h : \E i \in DOMAIN AllRows :
                                 /\ AllRows[i].voter_hash = h
                                 /\ AllRows[i].position_code = position_code)

\* SELECT id, name FROM candidates WHERE category = ?
\* all_candidates (line 548): the ids, in the order of the table, which is
\* also the order of the names
FetchedCandidates(position_code) ==
    SelectSeq([i \in DOMAIN candidates |-> i],
              LAMBDA id : id \in CandidatesOf(position_code))

\* what the unordered queries of one compute_position_winner call return
Fetched(position_code) ==
    [voters         |-> FetchedVoters(position_code),
     all_candidates |-> FetchedCandidates(position_code)]

\* the rows of one voter for one position, in table order
BallotRows(rows, voter_hash, position_code) ==
    SelectSeq(rows, LAMBDA r : r.voter_hash = voter_hash
                               /\ r.position_code = position_code)

\* ORDER BY preference_rank: ranks ascending, equal ranks in table order
RECURSIVE OrderByRank(_, _)
OrderByRank(rows, k) ==
    IF k = 0 THEN <<>>
    ELSE OrderByRank(rows, k - 1)
         \o SelectSeq(rows, LAMBDA r : r.preference_rank = k)

MaxRankIn(rows) ==
    IF rows = <<>> THEN 0
    ELSE CHOOSE m \in {rows[i].preference_rank : i \in DOMAIN rows} :
            \A i \in DOMAIN rows : rows[i].preference_rank <= m

\* SELECT candidate_id ... WHERE voter_hash = ? AND position_code = ?
\* ORDER BY preference_rank
Preferences(rows, voter_hash, position_code) ==
    LET mine   == BallotRows(rows, voter_hash, position_code)
        sorted == OrderByRank(mine, MaxRankIn(mine))
    IN  [i \in DOMAIN sorted |-> sorted[i].candidate_id]

\* variant: the exclusion set is not consulted
NonExcludedAt_IgnoreExcluded(preferences, excluded) == DOMAIN preferences

\* variant: a candidate is excluded with every row of the same name, not by
\* its id
NonExcludedAt_ByName(preferences, excluded) ==
    {i \in DOMAIN preferences :
        \A e \in excluded :
            /\ e # preferences[i]
            /\ ~(/\ e \in DOMAIN candidates
                 /\ preferences[i] \in DOMAIN candidates
                 /\ candidates[e].name = candidates[preferences[i]].name)}

\* positions of the ranked list whose candidate is not excluded
NonExcludedAt(preferences, excluded) ==
    {i \in DOMAIN preferences : preferences[i] \notin excluded}

\* variant: the scan keeps the last non-excluded candidate, not the first
FirstNonExcluded_Last(preferences, excluded) ==
    LET at == NonExcludedAt(preferences, excluded)
    IN  preferences[CHOOSE i \in at : \A j \in at : i >= j]

\* the first non-excluded candidate of a ranked list; callers test
\* NonExcludedAt # {} first (the for loop may end without a break)
FirstNonExcluded(preferences, excluded) ==
    LET at == NonExcludedAt(preferences, excluded)
    IN  preferences[CHOOSE i \in at : \A j \in at : i <= j]

\* vote_counts[cand_id] = vote_counts.get(cand_id, 0) + 1
\* the dict keeps its keys in insertion order: a sequence of [id, votes]
Increment(vote_counts, cand_id) ==
    IF \E i \in DOMAIN vote_counts : vote_counts[i].id = cand_id
    THEN [i \in DOMAIN vote_counts |->
            IF vote_counts[i].id = cand_id
            THEN [id |-> cand_id, votes |-> vote_counts[i].votes + 1]
            ELSE vote_counts[i]]
    ELSE Append(vote_counts, [id |-> cand_id, votes |-> 1])

\* variant: the inner loop has no break, every non-excluded preference counts
RECURSIVE IncrementAll(_, _)
IncrementAll(vote_counts, cand_ids) ==
    IF cand_ids = <<>> THEN vote_counts
    ELSE IncrementAll(Increment(vote_counts, cand_ids[1]), Tail(cand_ids))

RECURSIVE CountVotes_NoBreak(_, _, _, _)
CountVotes_NoBreak(rows, voters, position_code, excluded) ==
    IF voters = <<>> THEN <<>>
    ELSE LET before      == CountVotes_NoBreak(rows,
                                SubSeq(voters, 1, Len(voters) - 1),
                                position_code, excluded)
             preferences == Preferences(rows, voters[Len(voters)], position_code)
         IN  IncrementAll(before,
                          SelectSeq(preferences, LAMBDA c : c \notin excluded))

\* the loop over voters (lines 514-529)
RECURSIVE CountVotes(_, _, _, _)
CountVotes(rows, voters, position_code, excluded) ==
    IF voters = <<>> THEN <<>>
    ELSE LET before      == CountVotes(rows, SubSeq(voters, 1, Len(voters) - 1),
                                       position_code, excluded)
             preferences == Preferences(rows, voters[Len(voters)], position_code)
         IN  IF NonExcludedAt(preferences, excluded) # {}
             THEN Increment(before, FirstNonExcluded(preferences, excluded))
             ELSE before

\* lines 532-541: one entry per counted id that is a row of candidates
VotedEntries(vote_counts) ==
    LET known == SelectSeq(vote_counts, LAMBDA vc : vc.id \in DOMAIN candidates)
    IN  [i \in DOMAIN known |->
            [id |-> known[i].id, name |-> candidates[known[i].id].name,
             votes |-> known[i].votes]]

\* variant: candidates without votes are not added
ZeroEntries_None(all_candidates, existing_ids, excluded) == <<>>

\* variant: excluded candidates without votes are added too
ZeroEntries_KeepExcluded(all_candidates, existing_ids, excluded) ==
    LET added == SelectSeq(all_candidates, LAMBDA c : c \notin existing_ids)
    IN  [i \in DOMAIN added |->
            [id |-> added[i], name |-> candidates[added[i]].name, votes |-> 0]]

\* lines 543-556: the position's candidates that are neither listed yet nor
\* excluded, with zero votes, in the order the query returned them
ZeroEntries(all_candidates, existing_ids, excluded) ==
    LET added == SelectSeq(all_candidates,
                           LAMBDA c : c \notin existing_ids /\ c \notin excluded)
    IN  [i \in DOMAIN added |->
            [id |-> added[i], name |-> candidates[added[i]].name, votes |-> 0]]

\* variant: the sort without reverse=True, ascending
RECURSIVE SortByVotesDesc_Ascending(_, _)
SortByVotesDesc_Ascending(results, top) ==
    IF top < 0 THEN <<>>
    ELSE SortByVotesDesc_Ascending(results, top - 1)
         \o SelectSeq(results, LAMBDA r : r.votes = top)

\* results.sort(key=votes, reverse=True): descending, equal counts keep
\* their order (list.sort is stable, also with reverse=True)
RECURSIVE SortByVotesDesc(_, _)
SortByVotesDesc(results, top) ==
    IF top < 0 THEN <<>>
    ELSE SelectSeq(results, LAMBDA r : r.votes = top)
         \o SortByVotesDesc(results, top - 1)

\* variant: the voters less the number of candidates that received a vote
ExhaustedVotes_ByKeys(voters, vote_counts) == Len(voters) - Len(vote_counts)

\* len(voters) - sum(vote_counts.values())
ExhaustedVotes(voters, vote_counts) ==
    Len(voters) - SumSeq([i \in DOMAIN vote_counts |-> vote_counts[i].votes])

\* compute_position_winner, given what its two unordered queries returned:
\* scan.voters (line 509) and scan.all_candidates (line 548)
compute_position_winner(position_code, excluded_candidate_ids, scan) ==
    LET voters       == scan.voters
        vote_counts  == CountVotes(AllRows, voters, position_code,
                                   excluded_candidate_ids)
        voted        == VotedEntries(vote_counts)
        existing_ids == {voted[i].id : i \in DOMAIN voted}
        unsorted     == voted \o ZeroEntries(scan.all_candidates, existing_ids,
                                             excluded_candidate_ids)
        results      == SortByVotesDesc(unsorted, Len(voters))
    IN  [position_code   |-> position_code,
         winner          |-> IF results # <<>> THEN results[1] ELSE None,
         results         |-> results,
         total_voters    |-> Len(voters),
         exhausted_votes |-> ExhaustedVotes(voters, vote_counts)]

(***************************************************************************)
(* compute_all_results (models.py 572-608).                                *)
(***************************************************************************)
\* what the unordered queries of one compute_all_results run return, per
\* position
Fetches == [p \in PositionCodes |-> Fetched(p)]

\* the loop over the first k positions: the results so far and the
\* exclusion set after them
RECURSIVE ResultsUpTo(_, _)
ResultsUpTo(k, scans) ==
    IF k = 0 THEN [all_results |-> <<>>, excluded_candidates |-> {}]
    ELSE LET before == ResultsUpTo(k - 1, scans)
             pos    == election_positions[k]
             result == compute_position_winner(pos.position_code,
                                               before.excluded_candidates,
                                               scans[pos.position_code])
             named  == [position_code   |-> result.position_code,
                        position_name   |-> pos.position_name,
                        winner          |-> result.winner,
                        results         |-> result.results,
                        total_voters    |-> result.total_voters,
                        exhausted_votes |-> result.exhausted_votes]
         IN  [all_results |-> Append(before.all_results, named),
              excluded_candidates |->
                  IF result.winner # None
                  THEN before.excluded_candidates \cup {result.winner.id}
                  ELSE before.excluded_candidates]

compute_all_results(scans) == ResultsUpTo(Len(election_positions), scans).all_results

(***************************************************************************)
(* save_election_winners, get_election_winners (models.py 611-644).        *)
(***************************************************************************)
\* the rows save_election_winners inserts after DELETE FROM election_winners
RECURSIVE WinnerRows(_)
WinnerRows(results) ==
    IF results = <<>> THEN <<>>
    ELSE LET result == results[Len(results)]
             before == WinnerRows(SubSeq(results, 1, Len(results) - 1))
         IN  IF result.winner # None
             THEN Append(before, [position_code  |-> result.position_code,
                                  candidate_id   |-> result.winner.id,
                                  candidate_name |-> result.winner.name,
                                  vote_count     |-> result.winner.votes])
             ELSE before

save_election_winners(results) == WinnerRows(results)

\* election_winners JOIN election_positions ... ORDER BY ep.rank_order
RECURSIVE WinnersUpTo(_, _)
WinnersUpTo(table, k) ==
    IF k = 0 THEN <<>>
    ELSE LET pos  == election_positions[k]
             rows == SelectSeq(table, LAMBDA w : w.position_code = pos.position_code)
         IN  WinnersUpTo(table, k - 1)
             \o [i \in DOMAIN rows |->
                    [position_code  |-> rows[i].position_code,
                     candidate_id   |-> rows[i].candidate_id,
                     candidate_name |-> rows[i].candidate_name,
                     vote_count     |-> rows[i].vote_count,
                     position_name  |-> pos.position_name,
                     rank_order     |-> pos.rank_order]]

get_election_winners == WinnersUpTo(election_winners, Len(election_positions))

(***************************************************************************)
(* Ranked voting (models.py 362-453).                                      *)
(***************************************************************************)
\* a position without opens_at and closes_at
NoTimeline == [opens_at |-> None, closes_at |-> None]

\* is_position_active (lines 362-392)
is_position_active(position_code) ==
    IF position_code \notin PositionCodes \/ ~is_active[position_code]
    THEN FALSE
    ELSE LET row == timeline[position_code]
         IN  IF row.opens_at = None /\ row.closes_at = None THEN TRUE
             ELSE IF row.opens_at # None /\ now < row.opens_at.at THEN FALSE
             ELSE IF row.closes_at # None /\ now > row.closes_at.at THEN FALSE
             ELSE TRUE

\* set_position_timeline (lines 349-359): the table afterwards; an UPDATE
\* of an unknown position_code changes no row
set_position_timeline(position_code, opens_at, closes_at) ==
    IF position_code \in PositionCodes
    THEN [timeline EXCEPT ![position_code] =
            [opens_at |-> opens_at, closes_at |-> closes_at]]
    ELSE timeline

\* variant: the check for earlier rows is missing
has_voted_for_position_Never(voter_hash, position_code) == FALSE

\* SELECT id FROM ranked_votes WHERE voter_hash = ? AND position_code = ?
\* finds a row
has_voted_for_position(voter_hash, position_code) ==
    \E i \in DOMAIN AllRows :
        /\ AllRows[i].voter_hash = voter_hash
        /\ AllRows[i].position_code = position_code

\* the INSERTs of record_ranked_votes: one row per ranked id, rank from 1
InsertedRows(voter_hash, position_code, ranked_candidate_ids) ==
    [i \in DOMAIN ranked_candidate_ids |->
        [voter_hash      |-> voter_hash,
         position_code   |-> position_code,
         candidate_id    |-> ranked_candidate_ids[i],
         preference_rank |-> i]]

\* variant: closing the connection commits
close_db_Commits(committed, written) == written

\* close_db with a transaction open: db.close() rolls it back
close_db(committed, written) == committed

\* two rows of one voter and position that a UNIQUE constraint of the table
\* keeps apart
Collide(r, q) ==
    /\ r.voter_hash = q.voter_hash
    /\ r.position_code = q.position_code
    /\ \/ "candidate_id" \in unique_keys /\ r.candidate_id = q.candidate_id
       \/ "preference_rank" \in unique_keys
             /\ r.preference_rank = q.preference_rank

\* the first of the rows to insert (lines 433-439) that the table, holding
\* stored and the rows inserted before it, refuses; 0 if it takes them all
RECURSIVE FirstRefused(_, _, _)
FirstRefused(stored, rows, k) ==
    IF k > Len(rows) THEN 0
    ELSE IF \/ \E i \in DOMAIN stored : Collide(stored[i], rows[k])
            \/ \E j \in 1 .. (k - 1) : Collide(rows[j], rows[k])
    THEN k
    ELSE FirstRefused(stored, rows, k + 1)

\* an INSERT of the loop raises sqlite3.IntegrityError (line 442)
RaisesIntegrityError(stored, rows) == FirstRefused(stored, rows, 1) # 0

\* record_ranked_votes: (success, message) and the table once the request
\* is over; after an IntegrityError the rows inserted before it are in a
\* transaction that nothing commits, and close_db ends it
record_ranked_votes(voter_hash, position_code, ranked_candidate_ids) ==
    IF position_code \notin PositionCodes
    THEN [success |-> FALSE, message |-> "Invalid position", table |-> ranked_votes]
    ELSE IF has_voted_for_position(voter_hash, position_code)
    THEN [success |-> FALSE, message |-> "You have already voted for this position",
          table |-> ranked_votes]
    ELSE IF \E i \in DOMAIN ranked_candidate_ids :
                ~IsCandidateOf(ranked_candidate_ids[i], position_code)
    THEN [success |-> FALSE, message |-> "Invalid candidate ID", table |-> ranked_votes]
    ELSE IF RaisesIntegrityError(ranked_votes[position_code],
                InsertedRows(voter_hash, position_code, ranked_candidate_ids))
    THEN LET rows    == InsertedRows(voter_hash, position_code,
                                     ranked_candidate_ids)
             refused == FirstRefused(ranked_votes[position_code], rows, 1)
         IN  [success |-> FALSE, message |-> "Error recording votes",
              table |-> close_db(ranked_votes,
                           [ranked_votes EXCEPT ![position_code] =
                               @ \o SubSeq(rows, 1, refused - 1)])]
    ELSE [success |-> TRUE, message |-> "Votes recorded successfully",
          table |-> [ranked_votes EXCEPT ![position_code] =
                      @ \o InsertedRows(voter_hash, position_code,
                                        ranked_candidate_ids)]]

\* toggle_position: the new status, and the flags afterwards
toggle_position(position_code) ==
    IF position_code \in PositionCodes
    THEN [new_status |-> ~is_active[position_code],
          flags |-> [is_active EXCEPT ![position_code] = ~is_active[position_code]]]
    ELSE [new_status |-> FALSE, flags |-> is_active]

(***************************************************************************)
(* State machine: the request handlers of app.py.                          *)
(***************************************************************************)
\* the connections of the worker processes
Connections == {"c1", "c2"}

\* the browsers that hold a session cookie
Browsers == {"b1", "b2"}

\* a connection without a call in progress
Idle == [pc |-> "idle"]

\* an engine that scans the table, or one that scans an index on
\* voter_hash, whose key order is any order of the hashes
VoterIndexes == {<<>>} \cup Arrangements(Range(VoterHashes))

\* the database after auto_initialize; whether a position starts open and
\* which indexes there are is set by the schema, so all are initial states.
\* No timeline is set, nobody is logged in, and the ballots the handlers
\* below store never collide, whatever the table's UNIQUE constraints
Init ==
    /\ candidates = seed_candidates
    /\ ranked_votes = [p \in PositionCodes |-> <<>>]
    /\ is_active \in [PositionCodes -> BOOLEAN]
    /\ election_winners = <<>>
    /\ response = [kind |-> "none"]
    /\ voter_index \in VoterIndexes
    /\ requests = [c \in Connections |-> Idle]
    /\ saved = None
    /\ timeline = [p \in PositionCodes |-> NoTimeline]
    /\ now = 0
    /\ unique_keys = {}
    /\ session = [b \in Browsers |-> None]
    /\ environ = [ADMIN_PASSWORD |-> "", FLASK_ENV |-> "development"]

\* every position open for voting: the state the tally runs start from
InitTally ==
    /\ Init
    /\ \A p \in PositionCodes : is_active[p]

\* ids that are no candidate of the position: the candidates of the other
\* positions and one id of no row
ForeignIds(position_code) ==
    (1 .. (Len(candidates) + 1)) \ CandidatesOf(position_code)

\* lists of length 1..n over ids, each id at most once
DistinctLists(ids, n) ==
    UNION {{s \in [1 .. k -> ids] : \A i, j \in 1 .. k : i # j => s[i] # s[j]} :
           k \in 1 .. n}

\* the ranked_candidates field of the form: nothing; up to MaxRank
\* candidates of the position; a foreign id alone; a candidate followed by
\* a foreign id
RankedLists(position_code) ==
    {<<>>}
    \cup DistinctLists(CandidatesOf(position_code), MaxRank)
    \cup {<<x>> : x \in ForeignIds(position_code)}
    \cup {<<v, x>> : v \in CandidatesOf(position_code),
                     x \in ForeignIds(position_code)}

\* what a submission carries: the position of the URL (a position, or the
\* unknown code "XX") and the ranked list of the form
Submissions ==
    {<<"XX", <<>> >>}
    \cup UNION {{<<p, l>> : l \in RankedLists(p)} : p \in PositionCodes}

\* ballots in the store
NumBallots ==
    Cardinality({<<AllRows[i].voter_hash, AllRows[i].position_code>> :
                    i \in DOMAIN AllRows})

\* POST /ranked-vote/<position>/submit by the member whose hash is voter_hash
submit_ranked_vote(voter_hash, position, ranked_ids) ==
    IF position \notin PositionCodes
    THEN /\ response' = [kind |-> "submit", success |-> FALSE,
                         message |-> "Invalid position."]
         /\ UNCHANGED <<elsewhere, candidates, ranked_votes, is_active, election_winners,
                        voter_index, requests, saved>>
    ELSE IF ~is_position_active(position)
    THEN /\ response' = [kind |-> "submit", success |-> FALSE,
                         message |-> "Voting is currently closed."]
         /\ UNCHANGED <<elsewhere, candidates, ranked_votes, is_active, election_winners,
                        voter_index, requests, saved>>
    ELSE IF has_voted_for_position(voter_hash, position)
    THEN /\ response' = [kind |-> "submit", success |-> FALSE,
                         message |-> "You have already voted for this position."]
         /\ UNCHANGED <<elsewhere, candidates, ranked_votes, is_active, election_winners,
                        voter_index, requests, saved>>
    ELSE IF ranked_ids = <<>>
    THEN /\ response' = [kind |-> "submit", success |-> FALSE,
                         message |-> "Please rank at least one candidate."]
         /\ UNCHANGED <<elsewhere, candidates, ranked_votes, is_active, election_winners,
                        voter_index, requests, saved>>
    ELSE LET recorded == record_ranked_votes(voter_hash, position, ranked_ids)
         IN  /\ ranked_votes' = recorded.table
             /\ response' = [kind |-> "submit", success |-> recorded.success,
                             message |-> recorded.message]
             /\ UNCHANGED <<elsewhere, candidates, is_active, election_winners,
                           voter_index, requests, saved>>

\* POST /admin/positions/<position_code>/toggle by the admin
admin_toggle_position(position_code) ==
    LET toggled == toggle_position(position_code)
    IN  /\ is_active' = toggled.flags
        /\ response' = [kind |-> "toggle", new_status |-> toggled.new_status]
        /\ UNCHANGED <<elsewhere, candidates, ranked_votes, election_winners,
                      voter_index, requests, saved>>

\* variant: the ballots are cleared once the winners are saved
admin_compute_results_Clearing ==
    LET results == compute_all_results(Fetches)
    IN  /\ election_winners' = save_election_winners(results)
        /\ saved' = results
        /\ response' = [kind |-> "computed"]
        /\ ranked_votes' = [p \in PositionCodes |-> <<>>]
        /\ UNCHANGED <<elsewhere, candidates, is_active, voter_index, requests>>

\* POST /admin/compute-results by the admin
admin_compute_results ==
    LET results == compute_all_results(Fetches)
    IN  /\ election_winners' = save_election_winners(results)
        /\ saved' = results
        /\ response' = [kind |-> "computed"]
        /\ UNCHANGED <<elsewhere, candidates, ranked_votes, is_active, voter_index, requests>>

\* variant: the view saves what it computed
admin_view_results_Saving ==
    LET results == compute_all_results(Fetches)
    IN  /\ election_winners' = save_election_winners(results)
        /\ saved' = results
        /\ response' = [kind |-> "results", results |-> results,
                        winners |-> get_election_winners]
        /\ UNCHANGED <<elsewhere, candidates, ranked_votes, is_active, voter_index, requests>>

\* GET /admin/results by the admin
admin_view_results ==
    /\ response' = [kind |-> "results", results |-> compute_all_results(Fetches),
                    winners |-> get_election_winners]
    /\ UNCHANGED <<elsewhere, candidates, ranked_votes, is_active, election_winners,
                   voter_index, requests, saved>>

\* the k-th hash submits only once the hashes before it have a ballot
MaySubmit(k) ==
    \A j \in 1 .. (k - 1) :
        \E i \in DOMAIN AllRows : AllRows[i].voter_hash = VoterHashes[j]

Vote ==
    /\ NumBallots < MaxBallots
    /\ \E k \in DOMAIN VoterHashes, form \in Submissions :
            /\ MaySubmit(k)
            /\ submit_ranked_vote(VoterHashes[k], form[1], form[2])

Toggle ==
    \E position_code \in PositionCodes \cup {"XX"} :
        admin_toggle_position(position_code)

Next ==
    \/ Vote
    \/ Toggle
    \/ admin_compute_results
    \/ admin_view_results

Spec == Init /\ [][Next]_vars

(***************************************************************************)
(* Tally runs: ballots are submitted while every position is open, then    *)
(* compute_position_winner is called once on the store, for any position   *)
(* and any exclusion set.                                                  *)
(***************************************************************************)
\* the submissions record_ranked_votes accepts: candidates of the position
ValidSubmissions ==
    UNION {{<<p, l>> : l \in DistinctLists(CandidatesOf(p), MaxRank)} :
           p \in PositionCodes}

TallyVote ==
    /\ NumBallots < MaxTallyBallots
    /\ response.kind # "tally"
    /\ \E k \in DOMAIN VoterHashes, form \in ValidSubmissions :
            /\ MaySubmit(k)
            /\ submit_ranked_vote(VoterHashes[k], form[1], form[2])

CallComputePositionWinner ==
    /\ response.kind # "tally"
    /\ \E position_code \in PositionCodes, excluded \in SUBSET CandidateIds :
            response' = [kind          |-> "tally",
                         position_code |-> position_code,
                         excluded      |-> excluded,
                         result        |-> compute_position_winner(
                                              position_code, excluded,
                                              Fetched(position_code))]
    /\ UNCHANGED <<elsewhere, candidates, ranked_votes, is_active, election_winners,
                   voter_index, requests, saved>>

NextTally ==
    \/ TallyVote
    \/ CallComputePositionWinner

SpecTally == InitTally /\ [][NextTally]_vars

(***************************************************************************)
(* compute_all_results statement by statement (models.py 585-608), as a    *)
(* call in progress on a connection.  The record of the call holds its     *)
(* local variables; passed (the exclusion sets handed to                   *)
(* compute_position_winner so far), on (the ballots the run read) and      *)
(* previous (the ballots and the results of the run before it on this      *)
(* connection) are kept for the statement of the properties.               *)
(***************************************************************************)
\* ballots stored before the runs stop accepting more (SpecRun)
MaxRunBallots == 2

\* the connection on which compute_all_results is called
Caller == "c1"

\* variant: the exclusion set is a module-level set that outlives the call
FreshExclusion_Carry(left_over) == left_over

\* excluded_candidates = set() (line 593), whatever an earlier run left
FreshExclusion(left_over) == {}

\* variant: the winner is not added
AddWinner_Skipped(excluded_candidates, result) == excluded_candidates

\* variant: the set is replaced by the winner, not extended
AddWinner_OnlyLast(excluded_candidates, result) ==
    IF result.winner # None THEN {result.winner.id} ELSE excluded_candidates

\* lines 603-604: if result['winner']: excluded_candidates.add(winner id)
AddWinner(excluded_candidates, result) ==
    IF result.winner # None
    THEN excluded_candidates \cup {result.winner.id}
    ELSE excluded_candidates

\* no compute_all_results call is between its first and its last statement
NoRunInProgress ==
    \A c \in Connections : requests[c].pc \in {"idle", "returned"}

\* lines 585-594: the call begins
RunStart ==
    /\ requests[Caller].pc \in {"idle", "returned"}
    /\ requests' = [requests EXCEPT ![Caller] =
            [pc                  |-> "loop",
             k                   |-> 1,
             excluded_candidates |->
                 FreshExclusion(IF requests[Caller].pc = "returned"
                                THEN requests[Caller].excluded_candidates
                                ELSE {}),
             all_results         |-> <<>>,
             result              |-> None,
             passed              |-> <<>>,
             on                  |-> ranked_votes,
             previous            |->
                 IF requests[Caller].pc = "returned"
                 THEN [on          |-> requests[Caller].on,
                       all_results |-> requests[Caller].all_results]
                 ELSE None]]
    /\ UNCHANGED <<elsewhere, candidates, ranked_votes, is_active, election_winners,
                   response, voter_index, saved>>

\* lines 596-599: result = compute_position_winner(position_code,
\* excluded_candidates) for the next position
RunTally ==
    /\ requests[Caller].pc = "loop"
    /\ requests[Caller].k <= Len(election_positions)
    /\ LET run == requests[Caller]
           pos == election_positions[run.k]
       IN  requests' = [requests EXCEPT ![Caller] =
               [run EXCEPT
                   !.pc     = "tallied",
                   !.result = compute_position_winner(
                                  pos.position_code, run.excluded_candidates,
                                  Fetched(pos.position_code)),
                   !.passed = Append(@, run.excluded_candidates)]]
    /\ UNCHANGED <<elsewhere, candidates, ranked_votes, is_active, election_winners,
                   response, voter_index, saved>>

\* lines 600-606: the result gets its position_name, its winner joins the
\* exclusion set, and it is appended to all_results
RunCollect ==
    /\ requests[Caller].pc = "tallied"
    /\ LET run   == requests[Caller]
           pos   == election_positions[run.k]
           named == [position_code   |-> run.result.position_code,
                     position_name   |-> pos.position_name,
                     winner          |-> run.result.winner,
                     results         |-> run.result.results,
                     total_voters    |-> run.result.total_voters,
                     exhausted_votes |-> run.result.exhausted_votes]
       IN  requests' = [requests EXCEPT ![Caller] =
               [run EXCEPT
                   !.pc                  = "loop",
                   !.k                   = @ + 1,
                   !.excluded_candidates = AddWinner(@, run.result),
                   !.all_results         = Append(@, named),
                   !.result              = None]]
    /\ UNCHANGED <<elsewhere, candidates, ranked_votes, is_active, election_winners,
                   response, voter_index, saved>>

\* line 608: return all_results
RunReturn ==
    /\ requests[Caller].pc = "loop"
    /\ requests[Caller].k > Len(election_positions)
    /\ requests' = [requests EXCEPT ![Caller].pc = "returned"]
    /\ UNCHANGED <<elsewhere, candidates, ranked_votes, is_active, election_winners,
                   response, voter_index, saved>>

\* a valid ballot is submitted between two runs
RunVote ==
    /\ NoRunInProgress
    /\ NumBallots < MaxRunBallots
    /\ \E k \in DOMAIN VoterHashes, form \in ValidSubmissions :
            /\ MaySubmit(k)
            /\ submit_ranked_vote(VoterHashes[k], form[1], form[2])

\* the admin saves the results between two runs, once the ballots are in
RunSave ==
    /\ NoRunInProgress
    /\ NumBallots = MaxRunBallots
    /\ admin_compute_results

\* the admin views the results between two runs
RunView == NoRunInProgress /\ admin_view_results

NextRun ==
    \/ RunVote
    \/ RunStart
    \/ RunTally
    \/ RunCollect
    \/ RunReturn
    \/ RunSave
    \/ RunView

SpecRun == InitTally /\ [][NextRun]_vars

(***************************************************************************)
(* save_election_winners statement by statement (models.py 616-632), on    *)
(* connections that run concurrently, with get_election_winners read on    *)
(* other connections.  sqlite3.connect opens a connection in the module's   *)
(* default mode: the first DELETE or INSERT begins a transaction, whose     *)
(* writes other connections see at commit; one connection writes at a      *)
(* time; closing a connection rolls an open transaction back.              *)
(***************************************************************************)
\* ballots stored before the saves stop accepting more (SpecSave)
MaxSaveBallots == 1

\* results as a caller of save_election_winners may hold them: the tally of
\* every position, each under some exclusion set
ResultsWith(excluded_for) ==
    [k \in DOMAIN election_positions |->
        LET pos    == election_positions[k]
            result == compute_position_winner(pos.position_code,
                                              excluded_for[pos.position_code],
                                              Fetched(pos.position_code))
        IN  [position_code   |-> result.position_code,
             position_name   |-> pos.position_name,
             winner          |-> result.winner,
             results         |-> result.results,
             total_voters    |-> result.total_voters,
             exhausted_votes |-> result.exhausted_votes]]

\* the results of compute_all_results(), which admin_compute_results saves,
\* and those in which positions are left without a winner, every candidate
\* being excluded
SaveInputs ==
    {ResultsWith(excluded_for) :
        excluded_for \in [PositionCodes -> {{}, CandidateIds}]}

\* variant: the old rows are not deleted
DeleteFrom_Kept(table) == table

\* DELETE FROM election_winners (line 619)
DeleteFrom(table) == <<>>

\* lines 623-630: the row of a result that has a winner is inserted
InsertWinner(table, result) ==
    IF result.winner # None
    THEN Append(table, [position_code  |-> result.position_code,
                        candidate_id   |-> result.winner.id,
                        candidate_name |-> result.winner.name,
                        vote_count     |-> result.winner.votes])
    ELSE table

\* variant: the connection is in autocommit mode, a statement's writes are
\* committed at once
InTransaction_Autocommit(committed, written) == written

\* what the other connections see after a statement of an open
\* transaction wrote: the committed table, db.commit() being the last
\* statement of save_election_winners (line 632)
InTransaction(committed, written) == committed

\* a connection holds the write lock of the database
Writing(c) == requests[c].pc = "writing"

\* a caller holds results and calls save_election_winners(results)
SaveCall(c) ==
    /\ requests[c] = Idle
    /\ \E results \in SaveInputs :
            requests' = [requests EXCEPT ![c] =
                            [pc |-> "called", results |-> results]]
    /\ UNCHANGED <<elsewhere, candidates, ranked_votes, is_active, election_winners,
                   response, voter_index, saved>>

\* line 619: the DELETE begins the transaction
SaveDelete(c) ==
    /\ requests[c].pc = "called"
    /\ \A other \in Connections : ~Writing(other)
    /\ LET written == DeleteFrom(election_winners)
       IN  /\ requests' = [requests EXCEPT ![c] =
                   [pc       |-> "writing",
                    results  |-> requests[c].results,
                    written  |-> written,
                    inserted |-> 0,
                    before   |-> election_winners]]
           /\ election_winners' = InTransaction(election_winners, written)
    /\ UNCHANGED <<elsewhere, candidates, ranked_votes, is_active, response, voter_index,
                   saved>>

\* line 619 while another connection writes: sqlite3.OperationalError
\* (database is locked) leaves save_election_winners and the handler
SaveBusy(c) ==
    /\ requests[c].pc = "called"
    /\ \E other \in Connections : Writing(other)
    /\ requests' = [requests EXCEPT ![c] = Idle]
    /\ response' = [kind |-> "error", before |-> election_winners,
                    inserted |-> 0, of |-> Len(requests[c].results)]
    /\ UNCHANGED <<elsewhere, candidates, ranked_votes, is_active, election_winners,
                   voter_index, saved>>

\* lines 622-630: one turn of the loop over results
SaveInsert(c) ==
    /\ Writing(c)
    /\ requests[c].inserted < Len(requests[c].results)
    /\ LET written == InsertWinner(requests[c].written,
                                   requests[c].results[requests[c].inserted + 1])
       IN  /\ requests' = [requests EXCEPT ![c].written  = written,
                                           ![c].inserted = @ + 1]
           /\ election_winners' = InTransaction(election_winners, written)
    /\ UNCHANGED <<elsewhere, candidates, ranked_votes, is_active, response, voter_index,
                   saved>>

\* line 632: db.commit()
SaveCommit(c) ==
    /\ Writing(c)
    /\ requests[c].inserted = Len(requests[c].results)
    /\ election_winners' = requests[c].written
    /\ saved' = requests[c].results
    /\ response' = [kind |-> "saved", results |-> requests[c].results,
                    replaced |-> requests[c].before]
    /\ requests' = [requests EXCEPT ![c] = Idle]
    /\ UNCHANGED <<elsewhere, candidates, ranked_votes, is_active, voter_index>>

\* an INSERT or the commit raises: the exception leaves
\* save_election_winners and the handler, and close_db closes the connection
SaveFail(c) ==
    /\ Writing(c)
    /\ election_winners' = close_db(election_winners, requests[c].written)
    /\ response' = [kind |-> "error", before |-> requests[c].before,
                    inserted |-> requests[c].inserted,
                    of |-> Len(requests[c].results)]
    /\ requests' = [requests EXCEPT ![c] = Idle]
    /\ UNCHANGED <<elsewhere, candidates, ranked_votes, is_active, voter_index, saved>>

\* get_election_winners() on a connection of its own
ReadWinners ==
    /\ response' = [kind |-> "winners", winners |-> get_election_winners,
                    during |-> \E c \in Connections :
                                  Writing(c) /\ requests[c].inserted >= 1]
    /\ UNCHANGED <<elsewhere, candidates, ranked_votes, is_active, election_winners,
                   voter_index, requests, saved>>

\* a valid ballot is submitted before the results are saved
SaveVote ==
    /\ saved = None
    /\ \A c \in Connections : requests[c] = Idle
    /\ NumBallots < MaxSaveBallots
    /\ \E k \in DOMAIN VoterHashes, form \in ValidSubmissions :
            /\ MaySubmit(k)
            /\ submit_ranked_vote(VoterHashes[k], form[1], form[2])

\* every position open, and an engine that scans the table
InitSave ==
    /\ InitTally
    /\ voter_index = <<>>

NextSave ==
    \/ SaveVote
    \/ ReadWinners
    \/ \E c \in Connections :
          \/ SaveCall(c)
          \/ SaveDelete(c)
          \/ SaveBusy(c)
          \/ SaveInsert(c)
          \/ SaveCommit(c)
          \/ SaveFail(c)

SpecSave == InitSave /\ [][NextSave]_vars

(***************************************************************************)
(* SpecStore: compute_position_winner (models.py 482-569) as a function of *)
(* the ranked_votes table it reads.  The table is an input here: it holds  *)
(* up to MaxStoreBallots ballots, whose ranked ids need not be candidates  *)
(* of the ballot's position.                                               *)
(***************************************************************************)
\* ballots in the table
MaxStoreBallots == 1

\* the ranked ids of a stored ballot: candidates of the position; a
\* candidate ranked twice, alone or with another; a foreign id alone; a
\* foreign id before or after a candidate of the position
StoredLists(position_code) ==
    DistinctLists(CandidatesOf(position_code), MaxRank)
    \cup {<<v, v>> : v \in CandidatesOf(position_code)}
    \cup {<<l[1], l[2], l[1]>> : l \in DistinctLists(CandidatesOf(position_code), 2)
                                    \ DistinctLists(CandidatesOf(position_code), 1)}
    \cup {<<l[1], l[1], l[2]>> : l \in DistinctLists(CandidatesOf(position_code), 2)
                                    \ DistinctLists(CandidatesOf(position_code), 1)}
    \cup {<<x>> : x \in ForeignIds(position_code)}
    \cup {<<v, x>> : v \in CandidatesOf(position_code),
                     x \in ForeignIds(position_code)}
    \cup {<<x, v>> : v \in CandidatesOf(position_code),
                     x \in ForeignIds(position_code)}

\* what a voter has in the table: nothing, or one ballot for one position
StoredBallots ==
    {None}
    \cup UNION {{[position_code |-> p, ranked |-> l] : l \in StoredLists(p)} :
                p \in PositionCodes}

\* the rows of the ballots of the first k voters for a position (the columns
\* of models.py 432-440), in voter order
RECURSIVE StoredRows(_, _, _)
StoredRows(ballots, position_code, k) ==
    IF k = 0 THEN <<>>
    ELSE StoredRows(ballots, position_code, k - 1)
         \o (IF ballots[k] # None /\ ballots[k].position_code = position_code
             THEN InsertedRows(VoterHashes[k], position_code, ballots[k].ranked)
             ELSE <<>>)

StoreOf(ballots) ==
    [p \in PositionCodes |-> StoredRows(ballots, p, MaxStoreBallots)]

InitStore ==
    /\ candidates = seed_candidates
    /\ ranked_votes \in {StoreOf(ballots) :
                            ballots \in [1 .. MaxStoreBallots -> StoredBallots]}
    /\ is_active = [p \in PositionCodes |-> TRUE]
    /\ election_winners = <<>>
    /\ response = [kind |-> "none"]
    /\ voter_index = <<>>
    /\ requests = [c \in Connections |-> Idle]
    /\ saved = None
    /\ timeline = [p \in PositionCodes |-> NoTimeline]
    /\ now = 0
    /\ unique_keys = {}
    /\ session = [b \in Browsers |-> None]
    /\ environ = [ADMIN_PASSWORD |-> "", FLASK_ENV |-> "development"]

NextStore == CallComputePositionWinner

SpecStore == InitStore /\ [][NextStore]_vars

(***************************************************************************)
(* SpecRecord: calls of record_ranked_votes with any arguments, and        *)
(* submissions through the form, one after the other, on a table           *)
(* ranked_votes with any UNIQUE constraints.                               *)
(* SpecBallots: the operations of the application one after the other:     *)
(* submissions through the form, toggles, timelines, and the computation   *)
(* and saving of the results.                                              *)
(***************************************************************************)
\* ballots recorded
MaxRecorded == 1

\* the latest time of the clock
MaxTime == 2

\* the UNIQUE constraints ranked_votes may have beside its primary key
UniqueKeySets == SUBSET {"candidate_id", "preference_rank"}

\* opens_at, closes_at: not set, or a time, which the clock is before, at
\* or after
Times == {None, [at |-> 1]}

\* what a call of record_ranked_votes may get: the forms of Submissions, and
\* a candidate of the position ranked twice
Ballots ==
    Submissions
    \cup UNION {{<<p, <<v, v>> >> : v \in CandidatesOf(p)} : p \in PositionCodes}

\* POST /admin/positions/<position_code>/timeline by the admin
admin_set_timeline(position_code, opens_at, closes_at) ==
    /\ timeline' = set_position_timeline(position_code, opens_at, closes_at)
    /\ response' = [kind |-> "timeline"]
    /\ UNCHANGED <<candidates, ranked_votes, is_active, election_winners,
                   voter_index, requests, saved, now, unique_keys, session,
                   environ>>

\* a ballot more may come in, or the voter already has one for the position
MayRecord(voter_hash, position_code) ==
    \/ NumBallots < MaxRecorded
    \/ \E i \in DOMAIN AllRows : /\ AllRows[i].voter_hash = voter_hash
                                 /\ AllRows[i].position_code = position_code

\* a member submits the form
BallotSubmit ==
    \E k \in DOMAIN VoterHashes, form \in Ballots :
        /\ MaySubmit(k)
        /\ MayRecord(VoterHashes[k], form[1])
        /\ submit_ranked_vote(VoterHashes[k], form[1], form[2])

\* record_ranked_votes is called, with any arguments
BallotRecord ==
    \E k \in DOMAIN VoterHashes, form \in Ballots :
        /\ MaySubmit(k)
        /\ MayRecord(VoterHashes[k], form[1])
        /\ LET recorded == record_ranked_votes(VoterHashes[k], form[1], form[2])
           IN  /\ ranked_votes' = recorded.table
               /\ response' = [kind                 |-> "record",
                               success              |-> recorded.success,
                               message              |-> recorded.message,
                               voter_hash           |-> VoterHashes[k],
                               position_code        |-> form[1],
                               ranked_candidate_ids |-> form[2],
                               before               |-> ranked_votes]
        /\ UNCHANGED <<elsewhere, candidates, is_active, election_winners,
                       voter_index, requests, saved>>

\* a member submits a form that ranks candidates of the position, also for
\* a position that is closed or that the member has voted for
BallotVote ==
    \E k \in DOMAIN VoterHashes, form \in ValidSubmissions :
        /\ MaySubmit(k)
        /\ MayRecord(VoterHashes[k], form[1])
        /\ submit_ranked_vote(VoterHashes[k], form[1], form[2])

BallotToggle == Toggle

\* the admin sets the timeline of the first position, or of an unknown one
BallotTimeline ==
    \E position_code \in {CATEGORIES[1], "XX"}, opens_at, closes_at \in Times :
        admin_set_timeline(position_code, opens_at, closes_at)

\* time passes
Tick ==
    /\ now < MaxTime
    /\ now' = now + 1
    /\ UNCHANGED <<candidates, ranked_votes, is_active, election_winners,
                   response, voter_index, requests, saved, timeline,
                   unique_keys, session, environ>>

\* the admin computes and saves the results, once the ballots are in
BallotCompute ==
    /\ NumBallots = MaxRecorded
    /\ admin_compute_results

InitRecord ==
    /\ candidates = seed_candidates
    /\ ranked_votes = [p \in PositionCodes |-> <<>>]
    /\ is_active = [p \in PositionCodes |-> TRUE]
    /\ election_winners = <<>>
    /\ response = [kind |-> "none"]
    /\ voter_index = <<>>
    /\ requests = [c \in Connections |-> Idle]
    /\ saved = None
    /\ timeline = [p \in PositionCodes |-> NoTimeline]
    /\ now = 0
    /\ unique_keys \in UniqueKeySets
    /\ session = [b \in Browsers |-> None]
    /\ environ = [ADMIN_PASSWORD |-> "", FLASK_ENV |-> "development"]

NextRecord ==
    \/ BallotSubmit
    \/ BallotRecord

SpecRecord == InitRecord /\ [][NextRecord]_vars

\* every position open, an engine that scans the table, no UNIQUE
\* constraint
InitBallots ==
    /\ InitTally
    /\ voter_index = <<>>

NextBallots ==
    \/ BallotVote
    \/ BallotToggle
    \/ BallotTimeline
    \/ Tick
    \/ BallotCompute

SpecBallots == InitBallots /\ [][NextBallots]_vars

(***************************************************************************)
(* SpecSubmit: submit_ranked_vote (app.py 586-630) and record_ranked_votes *)
(* (models.py 403-443) statement by statement, on connections that run     *)
(* concurrently with each other and with the admin's toggles.  The SELECTs *)
(* open no transaction; the first INSERT does, and db.commit() ends it.    *)
(***************************************************************************)
\* (voter, position) pairs with a ballot stored or being submitted
MaxSubmitted == 1

\* the connection is between the first INSERT and the commit
Inserting(c) == requests[c].pc = "inserting" /\ requests[c].inserted >= 1

\* the (voter, position) pairs of the ballots stored and in flight
SubmittedPairs ==
    {<<AllRows[i].voter_hash, AllRows[i].position_code>> : i \in DOMAIN AllRows}
    \cup {<<requests[c].voter_hash, requests[c].position>> :
            c \in {x \in Connections :
                      requests[x].pc \in {"checked", "inserting"}}}

\* app.py 589-620: the checks of the handler and the parsing of the form;
\* the form ranks candidates of the position, and the member who submits
\* has the application open in every tab
SubmitBegin(c) ==
    /\ requests[c] = Idle
    /\ \E k \in {1}, form \in ValidSubmissions :
          /\ \/ <<VoterHashes[k], form[1]>> \in SubmittedPairs
             \/ Cardinality(SubmittedPairs) < MaxSubmitted
          /\ IF ~is_position_active(form[1])
             THEN /\ response' = [kind |-> "submit", success |-> FALSE,
                                  message |-> "Voting is currently closed."]
                  /\ UNCHANGED requests
             ELSE IF has_voted_for_position(VoterHashes[k], form[1])
             THEN /\ response' = [kind |-> "submit", success |-> FALSE,
                                  message |->
                                    "You have already voted for this position."]
                  /\ UNCHANGED requests
             ELSE /\ requests' = [requests EXCEPT ![c] =
                         [pc         |-> "checked",
                          voter_hash |-> VoterHashes[k],
                          position   |-> form[1],
                          ranked_ids |-> form[2]]]
                  /\ UNCHANGED response
    /\ UNCHANGED <<elsewhere, candidates, ranked_votes, is_active,
                   election_winners, voter_index, saved>>

\* models.py 409-429: the checks of record_ranked_votes
RecordBegin(c) ==
    /\ requests[c].pc = "checked"
    /\ LET call == requests[c]
       IN  IF has_voted_for_position(call.voter_hash, call.position)
           THEN /\ response' = [kind |-> "submit", success |-> FALSE,
                                message |->
                                  "You have already voted for this position"]
                /\ requests' = [requests EXCEPT ![c] = Idle]
           ELSE IF \E i \in DOMAIN call.ranked_ids :
                      ~IsCandidateOf(call.ranked_ids[i], call.position)
           THEN /\ response' = [kind |-> "submit", success |-> FALSE,
                                message |-> "Invalid candidate ID"]
                /\ requests' = [requests EXCEPT ![c] = Idle]
           ELSE /\ requests' = [requests EXCEPT ![c] =
                       [pc         |-> "inserting",
                        voter_hash |-> call.voter_hash,
                        position   |-> call.position,
                        ranked_ids |-> call.ranked_ids,
                        inserted   |-> 0]]
                /\ UNCHANGED response
    /\ UNCHANGED <<elsewhere, candidates, ranked_votes, is_active,
                   election_winners, voter_index, saved>>

\* the rows the connection has inserted and not committed
Pending(c) ==
    SubSeq(InsertedRows(requests[c].voter_hash, requests[c].position,
                        requests[c].ranked_ids),
           1, requests[c].inserted)

\* models.py 433-439: one INSERT, which the table takes
RecordInsert(c) ==
    /\ requests[c].pc = "inserting"
    /\ requests[c].inserted < Len(requests[c].ranked_ids)
    /\ \A other \in Connections \ {c} : ~Inserting(other)
    /\ LET row == InsertedRows(requests[c].voter_hash, requests[c].position,
                               requests[c].ranked_ids)[requests[c].inserted + 1]
       IN  FirstRefused(ranked_votes[requests[c].position] \o Pending(c),
                        <<row>>, 1) = 0
    /\ requests' = [requests EXCEPT ![c].inserted = @ + 1]
    /\ UNCHANGED <<elsewhere, candidates, ranked_votes, is_active,
                   election_winners, response, voter_index, saved>>

\* models.py 433-443: one INSERT, which the table refuses:
\* sqlite3.IntegrityError, (False, "Error recording votes: ...") is
\* returned, and close_db ends the transaction
RecordRefused(c) ==
    /\ requests[c].pc = "inserting"
    /\ requests[c].inserted < Len(requests[c].ranked_ids)
    /\ \A other \in Connections \ {c} : ~Inserting(other)
    /\ LET row == InsertedRows(requests[c].voter_hash, requests[c].position,
                               requests[c].ranked_ids)[requests[c].inserted + 1]
       IN  FirstRefused(ranked_votes[requests[c].position] \o Pending(c),
                        <<row>>, 1) # 0
    /\ ranked_votes' = close_db(ranked_votes,
                          [ranked_votes EXCEPT ![requests[c].position] =
                              @ \o Pending(c)])
    /\ response' = [kind |-> "submit", success |-> FALSE,
                    message |-> "Error recording votes"]
    /\ requests' = [requests EXCEPT ![c] = Idle]
    /\ UNCHANGED <<elsewhere, candidates, is_active, election_winners,
                   voter_index, saved>>

\* models.py 433-439 while another connection writes:
\* sqlite3.OperationalError (database is locked) leaves the handler, and
\* close_db ends the transaction
RecordBusy(c) ==
    /\ requests[c].pc = "inserting"
    /\ requests[c].inserted < Len(requests[c].ranked_ids)
    /\ \E other \in Connections \ {c} : Inserting(other)
    /\ ranked_votes' = close_db(ranked_votes,
                          [ranked_votes EXCEPT ![requests[c].position] =
                              @ \o Pending(c)])
    /\ response' = [kind |-> "error"]
    /\ requests' = [requests EXCEPT ![c] = Idle]
    /\ UNCHANGED <<elsewhere, candidates, is_active, election_winners,
                   voter_index, saved>>

\* models.py 440: db.commit()
RecordCommit(c) ==
    /\ requests[c].pc = "inserting"
    /\ requests[c].inserted = Len(requests[c].ranked_ids)
    /\ ranked_votes' = [ranked_votes EXCEPT ![requests[c].position] =
                           @ \o Pending(c)]
    /\ response' = [kind |-> "submit", success |-> TRUE,
                    message |-> "Votes recorded successfully"]
    /\ requests' = [requests EXCEPT ![c] = Idle]
    /\ UNCHANGED <<elsewhere, candidates, is_active, election_winners,
                   voter_index, saved>>

\* the admin toggles a position while a ballot for it is being submitted;
\* the UPDATE waits for a connection that is writing
SubmitToggle ==
    /\ \A c \in Connections : ~Inserting(c)
    /\ \E c \in Connections :
          /\ requests[c].pc \in {"checked", "inserting"}
          /\ admin_toggle_position(requests[c].position)

\* every position open, an engine that scans the table, any UNIQUE
\* constraints
InitSubmit == InitRecord

NextSubmit ==
    \/ SubmitToggle
    \/ \E c \in Connections :
          \/ SubmitBegin(c)
          \/ RecordBegin(c)
          \/ RecordInsert(c)
          \/ RecordRefused(c)
          \/ RecordBusy(c)
          \/ RecordCommit(c)

SpecSubmit == InitSubmit /\ [][NextSubmit]_vars

(***************************************************************************)
(* SpecAdmin: the sessions.  login, admin_login and logout (app.py         *)
(* 213-284), and the routes behind login_required and admin_required       *)
(* (159-182), requested by browsers with and without a session, on a       *)
(* server started in development.                                          *)
(***************************************************************************)
\* ballots stored before members stop submitting (SpecAdmin)
MaxAdminBallots == 1

\* table users after auto_initialize (app.py 70-74) and seed_members
\* (seed_members.py 20, 39-41): the admin and one member; id = index
users ==
    <<[name |-> "Admin", email |-> "admin@club.com",
       ccpc_profile_id |-> "ADMIN", is_admin |-> TRUE],
      [name |-> "Krish Kumar", email |-> "krish.22190503027@cuj.ac.in",
       ccpc_profile_id |-> "FE9FO4dLssN22QBPz8liIIgj04C2",
       is_admin |-> FALSE]>>

\* the text of a form field as the path segments before the last one, the
\* last one, and whether the last one is made of letters and digits only
FormUrl(before, segment, alnum) ==
    [before |-> before, segment |-> segment, alnum |-> alnum]

\* models.py 62-83: the profile id in a profile URL or in a bare id; "" for
\* None
extract_ccpc_profile_id(ccpc_url) ==
    IF ccpc_url.before = <<>> /\ ccpc_url.segment = "" THEN ""
    ELSE IF /\ Len(ccpc_url.before) >= 2
            /\ ccpc_url.before[Len(ccpc_url.before)] = "profile"
            /\ ccpc_url.alnum
    THEN ccpc_url.segment
    ELSE IF ccpc_url.before = <<>> /\ ccpc_url.alnum
    THEN ccpc_url.segment
    ELSE ""

\* models.py 97-101: SELECT * FROM users WHERE id = ?; the row's id, 0 for
\* no row
get_user_by_id(user_id) ==
    IF user_id \in DOMAIN users THEN user_id ELSE 0

\* models.py 90-94: SELECT * FROM users WHERE email = ?; the row's id, 0
\* for no row
get_user_by_email(email) ==
    IF \E id \in DOMAIN users : users[id].email = email
    THEN CHOOSE id \in DOMAIN users :
            /\ users[id].email = email
            /\ \A other \in DOMAIN users :
                  users[other].email = email => id <= other
    ELSE 0

\* models.py 104-123: the id of the user with this email and profile id, 0
\* for None
authenticate_member(email, ccpc_url) ==
    IF email = "" \/ (ccpc_url.before = <<>> /\ ccpc_url.segment = "")
    THEN 0
    ELSE LET profile_id == extract_ccpc_profile_id(ccpc_url)
             Matches == {id \in DOMAIN users :
                            /\ users[id].email = email
                            /\ users[id].ccpc_profile_id = profile_id}
         IN  IF profile_id = "" \/ Matches = {} THEN 0
             ELSE CHOOSE id \in Matches : \A other \in Matches : id <= other

\* 'user_id' in session
LoggedIn(b) == session[b] # None

\* variant: any logged-in user passes
admin_required_LoginOnly(b) ==
    IF ~LoggedIn(b) THEN "login" ELSE "ok"

\* app.py 170-182: "ok", or the page the decorator redirects to
admin_required(b) ==
    IF ~LoggedIn(b) THEN "login"
    ELSE LET user == get_user_by_id(session[b].user_id)
         IN  IF user = 0 THEN "ranked_dashboard"
             ELSE IF ~users[user].is_admin THEN "ranked_dashboard"
             ELSE "ok"

\* app.py 159-167
login_required(b) ==
    IF ~LoggedIn(b) THEN "login" ELSE "ok"

\* the redirect of a decorator; nothing else changes
Redirected(b, route, to) ==
    /\ response' = [kind |-> "redirect", route |-> route, browser |-> b,
                    to |-> to]
    /\ UNCHANGED <<elsewhere, candidates, ranked_votes, is_active,
                   election_winners, voter_index, requests, saved>>

\* app.py 213-236: POST /login
login(b, email, ccpc_url) ==
    IF LoggedIn(b) THEN Redirected(b, "login", "ranked_dashboard")
    ELSE LET user == authenticate_member(email, ccpc_url)
         IN  /\ session' = IF user # 0
                           THEN [session EXCEPT ![b] = [user_id |-> user]]
                           ELSE session
             /\ response' = [kind |-> "login", browser |-> b,
                             to |-> IF user = 0 THEN "login"
                                    ELSE IF users[user].is_admin THEN "admin"
                                    ELSE "ranked_dashboard"]
             /\ UNCHANGED <<candidates, ranked_votes, is_active,
                            election_winners, voter_index, requests, saved,
                            timeline, now, unique_keys, environ>>

\* app.py 239-276: POST /admin/login
admin_login(b, password) ==
    IF LoggedIn(b)
    THEN LET user == get_user_by_id(session[b].user_id)
         IN  Redirected(b, "admin_login",
                        IF user # 0 /\ users[user].is_admin
                        THEN "admin" ELSE "ranked_dashboard")
    ELSE LET unset == environ.ADMIN_PASSWORD = ""
             ADMIN_PASSWORD == IF unset THEN "admin123"
                               ELSE environ.ADMIN_PASSWORD
             admin == get_user_by_email("admin@club.com")
             accepted == /\ ~(unset /\ environ.FLASK_ENV = "production")
                         /\ password = ADMIN_PASSWORD
                         /\ admin # 0
         IN  /\ session' = IF accepted
                           THEN [session EXCEPT ![b] = [user_id |-> admin]]
                           ELSE session
             /\ response' = [kind |-> "admin_login", browser |-> b,
                             password |-> password,
                             to |-> IF accepted THEN "admin"
                                    ELSE "admin_login"]
             /\ UNCHANGED <<candidates, ranked_votes, is_active,
                            election_winners, voter_index, requests, saved,
                            timeline, now, unique_keys, environ>>

\* app.py 279-284: GET /logout
logout(b) ==
    /\ session' = [session EXCEPT ![b] = None]
    /\ response' = [kind |-> "logout", browser |-> b, to |-> "login"]
    /\ UNCHANGED <<candidates, ranked_votes, is_active, election_winners,
                   voter_index, requests, saved, timeline, now, unique_keys,
                   environ>>

\* what the login form is filled with
Emails == {"", "admin@club.com", "krish.22190503027@cuj.ac.in"}

CcpcUrls ==
    {FormUrl(<<>>, "", FALSE),
     FormUrl(<<>>, "ADMIN", TRUE),
     FormUrl(<<>>, "FE9FO4dLssN22QBPz8liIIgj04C2", TRUE),
     FormUrl(<<"https:", "", "ccpc-cuj.web.app", "profile">>,
             "FE9FO4dLssN22QBPz8liIIgj04C2", TRUE),
     FormUrl(<<"https:", "", "ccpc-cuj.web.app">>,
             "FE9FO4dLssN22QBPz8liIIgj04C2", TRUE),
     FormUrl(<<>>, "' OR 1=1 --", FALSE)}

Passwords == {"", "admin123", "s3cret"}

\* the environment the server is started in
Environs ==
    [ADMIN_PASSWORD : {"", "s3cret"}, FLASK_ENV : {"development", "production"}]

Login == \E b \in Browsers, email \in Emails, ccpc_url \in CcpcUrls :
            login(b, email, ccpc_url)

AdminLogin == \E b \in Browsers, password \in Passwords :
                 admin_login(b, password)

Logout == \E b \in Browsers : LoggedIn(b) /\ logout(b)

\* POST /admin/positions/<position_code>/toggle (app.py 503-505)
AdminToggle ==
    \E b \in Browsers, position_code \in PositionCodes :
        IF admin_required(b) = "ok"
        THEN admin_toggle_position(position_code)
        ELSE Redirected(b, "admin_toggle_position", admin_required(b))

\* POST /admin/positions/<position_code>/timeline (app.py 513-515), for the
\* first position
AdminTimeline ==
    \E b \in Browsers, position_code \in {CATEGORIES[1]}, closes_at \in Times :
        IF admin_required(b) = "ok"
        THEN admin_set_timeline(position_code, None, closes_at)
        ELSE Redirected(b, "admin_set_timeline", admin_required(b))

\* POST /admin/compute-results (app.py 525-527)
AdminCompute ==
    \E b \in Browsers :
        IF admin_required(b) = "ok"
        THEN admin_compute_results
        ELSE Redirected(b, "admin_compute_results", admin_required(b))

\* forms that rank one candidate of the position
TopChoices ==
    UNION {{<<p, <<v>> >> : v \in CandidatesOf(p)} : p \in PositionCodes}

\* POST /ranked-vote/<position>/submit (app.py 586-599): the voter hash is
\* that of the session's user
SessionSubmit ==
    /\ NumBallots < MaxAdminBallots
    /\ \E b \in Browsers, form \in TopChoices :
          IF login_required(b) = "ok"
          THEN submit_ranked_vote(VoterHashes[session[b].user_id],
                                  form[1], form[2])
          ELSE Redirected(b, "submit_ranked_vote", login_required(b))

\* the database after auto_initialize and seed_members, nobody logged in,
\* the server started in the given environment
InitSessions(env) ==
    /\ candidates = seed_candidates
    /\ ranked_votes = [p \in PositionCodes |-> <<>>]
    /\ is_active = [p \in PositionCodes |-> TRUE]
    /\ election_winners = <<>>
    /\ response = [kind |-> "none"]
    /\ voter_index = <<>>
    /\ requests = [c \in Connections |-> Idle]
    /\ saved = None
    /\ timeline = [p \in PositionCodes |-> NoTimeline]
    /\ now = 0
    /\ unique_keys = {}
    /\ session = [b \in Browsers |-> None]
    /\ environ = env

\* the server started in development without ADMIN_PASSWORD
InitAdmin == InitSessions([ADMIN_PASSWORD |-> "", FLASK_ENV |-> "development"])

NextAdmin ==
    \/ Login
    \/ AdminLogin
    \/ Logout
    \/ AdminToggle
    \/ AdminTimeline
    \/ AdminCompute
    \/ SessionSubmit

SpecAdmin == InitAdmin /\ [][NextAdmin]_vars

(***************************************************************************)
(* SpecLogin: logging in and out, and one admin route, on a server started *)
(* in any environment.                                                     *)
(***************************************************************************)
InitLogin == \E env \in Environs : InitSessions(env)

NextLogin ==
    \/ Login
    \/ AdminLogin
    \/ Logout
    \/ AdminToggle

SpecLogin == InitLogin /\ [][NextLogin]_vars

(***************************************************************************)
(* What the claims are stated in: read off the stored rows as sets, not    *)
(* through the operators of the tally.                                     *)
(***************************************************************************)
\* a call of compute_position_winner has returned
TallyDone == response.kind = "tally"

\* the rows stored for a position
RowsIn(position_code) ==
    {AllRows[i] : i \in {j \in DOMAIN AllRows :
                            AllRows[j].position_code = position_code}}

\* the voters with a ballot for a position
VotersIn(position_code) == {r.voter_hash : r \in RowsIn(position_code)}

\* the rows of one ballot
Ballot(voter_hash, position_code) ==
    {r \in RowsIn(position_code) : r.voter_hash = voter_hash}

\* the ballot counts for cand_id: cand_id is its best-ranked id outside excluded
CountsFor(voter_hash, position_code, excluded, cand_id) ==
    \E r \in Ballot(voter_hash, position_code) :
        /\ r.candidate_id = cand_id
        /\ cand_id \notin excluded
        /\ \A q \in Ballot(voter_hash, position_code) :
              q.candidate_id \notin excluded => r.preference_rank <= q.preference_rank

\* every id the ballot ranks is excluded
IsExhausted(voter_hash, position_code, excluded) ==
    \A r \in Ballot(voter_hash, position_code) : r.candidate_id \in excluded

\* the votes a results list gives to an id, over all its entries
VotesListed(results, cand_id) ==
    LET entries == SelectSeq(results, LAMBDA e : e.id = cand_id)
    IN  SumSeq([i \in DOMAIN entries |-> entries[i].votes])

\* the votes of all entries of a results list
TotalListed(results) == SumSeq([i \in DOMAIN results |-> results[i].votes])

\* every id a ballot or an exclusion set can hold
AnyIds == 1 .. (Len(candidates) + 1)

(***************************************************************************)
(* Claims about compute_position_winner, checked under SpecTally.          *)
(***************************************************************************)
\* C2: the record returned by compute_position_winner satisfies
\* total_voters = exhausted_votes + the sum of the votes of all entries of
\* its results list, whatever the position, the ballots and the exclusions.
C2_Conservation ==
    TallyDone =>
        response.result.total_voters =
            response.result.exhausted_votes + TotalListed(response.result.results)

\* a tally in which one ballot is exhausted and another one is counted
C2_Witness ==
    /\ TallyDone
    /\ response.result.exhausted_votes >= 1
    /\ TotalListed(response.result.results) >= 1

\* C3: each ballot adds one vote to exactly the first candidate id, in
\* preference-rank order, that is not in the exclusion set, and to no other:
\* the votes listed for an id are the ballots whose best-ranked non-excluded
\* id it is, and no other id is listed.
C3_FirstNonExcludedCounts ==
    TallyDone =>
        /\ \A c \in AnyIds :
              VotesListed(response.result.results, c) =
                  Cardinality({h \in VotersIn(response.position_code) :
                                  CountsFor(h, response.position_code,
                                            response.excluded, c)})
        /\ \A i \in DOMAIN response.result.results :
              response.result.results[i].id \in AnyIds

\* with X excluded, a ballot [X, Y] has counted for Y and not for X, next to
\* a ballot that ranks Y first
C3_Witness ==
    /\ TallyDone
    /\ \E x \in response.excluded, y \in CandidateIds \ response.excluded :
          /\ \E h \in VotersIn(response.position_code) :
                /\ [voter_hash |-> h, position_code |-> response.position_code,
                    candidate_id |-> x, preference_rank |-> 1]
                       \in Ballot(h, response.position_code)
                /\ [voter_hash |-> h, position_code |-> response.position_code,
                    candidate_id |-> y, preference_rank |-> 2]
                       \in Ballot(h, response.position_code)
          /\ VotesListed(response.result.results, y) = 2
          /\ VotesListed(response.result.results, x) = 0

\* C4: a ballot contributes at most one effective vote over the whole
\* candidate set of its position: the votes of a result never sum to more
\* than total_voters, which is the number of ballots, and an id is never
\* given more votes than there are ballots ranking it.
C4_NoDoubleCounting ==
    TallyDone =>
        /\ TotalListed(response.result.results) <= response.result.total_voters
        /\ response.result.total_voters =
              Cardinality(VotersIn(response.position_code))
        /\ \A c \in AnyIds :
              VotesListed(response.result.results, c) <=
                  Cardinality({h \in VotersIn(response.position_code) :
                      \E r \in Ballot(h, response.position_code) :
                          r.candidate_id = c})

\* a ballot ranking two candidates, neither excluded, was tallied, and every
\* ballot counted once
C4_Witness ==
    /\ TallyDone
    /\ \E h \in VotersIn(response.position_code) :
          /\ Cardinality(Ballot(h, response.position_code)) = 2
          /\ \A r \in Ballot(h, response.position_code) :
                r.candidate_id \notin response.excluded
    /\ response.result.total_voters >= 2
    /\ TotalListed(response.result.results) = response.result.total_voters

\* C5: exhausted_votes is the number of ballots of the position whose every
\* ranked id is in the exclusion set, and such a ballot adds a vote to no
\* candidate: the listed votes are the ballots that are not exhausted.
C5_ExhaustedBallots ==
    TallyDone =>
        LET exhausted == {h \in VotersIn(response.position_code) :
                             IsExhausted(h, response.position_code,
                                         response.excluded)}
        IN  /\ response.result.exhausted_votes = Cardinality(exhausted)
            /\ TotalListed(response.result.results) =
                  Cardinality(VotersIn(response.position_code) \ exhausted)

\* ballot [X] with X excluded and candidates {X, Y}: total_voters = 1,
\* exhausted_votes = 1 and Y is listed with 0 votes
C5_Witness ==
    /\ TallyDone
    /\ response.result.total_voters = 1
    /\ response.result.exhausted_votes = 1
    /\ \E h \in VotersIn(response.position_code) :
          /\ Cardinality(Ballot(h, response.position_code)) = 1
          /\ IsExhausted(h, response.position_code, response.excluded)
    /\ \E i \in DOMAIN response.result.results :
          response.result.results[i].votes = 0

\* C8: every candidate registered for a position whose id is not in the
\* exclusion set appears exactly once in that position's results list, with
\* count 0 when no ballot counts for it.
C8_Completeness ==
    TallyDone =>
        \A c \in CandidatesOf(response.position_code) \ response.excluded :
            /\ Cardinality({i \in DOMAIN response.result.results :
                               response.result.results[i].id = c}) = 1
            /\ (~\E h \in VotersIn(response.position_code) :
                    CountsFor(h, response.position_code, response.excluded, c))
               => VotesListed(response.result.results, c) = 0

\* a candidate no ballot counts for is listed with 0 votes beside one that
\* has votes
C8_Witness ==
    /\ TallyDone
    /\ \E i, j \in DOMAIN response.result.results :
          /\ response.result.results[i].votes = 0
          /\ response.result.results[j].votes >= 1
          /\ response.result.results[i].id
                \in CandidatesOf(response.position_code)

\* C9: no entry of a position's results list, and therefore no winner, has
\* an id that is in the exclusion set passed to compute_position_winner.
C9_ExcludedOmitted ==
    TallyDone =>
        /\ \A i \in DOMAIN response.result.results :
              response.result.results[i].id \notin response.excluded
        /\ response.result.winner # None
              => response.result.winner.id \notin response.excluded

\* a candidate of the position that a ballot ranks first is excluded, and
\* the result still has a winner
C9_Witness ==
    /\ TallyDone
    /\ response.result.winner # None
    /\ \E x \in response.excluded \cap CandidatesOf(response.position_code) :
          \E r \in RowsIn(response.position_code) :
              r.candidate_id = x /\ r.preference_rank = 1

\* C10: the results list is ordered by vote count non-increasing and the
\* winner is its first entry, so no listed candidate has more votes than the
\* winner; the winner is none exactly when the results list is empty.
C10_SortedWinnerFirst ==
    TallyDone =>
        /\ \A i, j \in DOMAIN response.result.results :
              i < j => response.result.results[i].votes
                          >= response.result.results[j].votes
        /\ response.result.results # <<>>
              => /\ response.result.winner = response.result.results[1]
                 /\ \A i \in DOMAIN response.result.results :
                       response.result.results[i].votes
                          <= response.result.winner.votes
        /\ (response.result.winner = None) <=> (response.result.results = <<>>)

\* the winner has two votes and is followed by a candidate with one
C10_Witness ==
    /\ TallyDone
    /\ Len(response.result.results) >= 2
    /\ response.result.winner # None
    /\ response.result.winner.votes = 2
    /\ response.result.results[2].votes = 1

\* a result without winner: every candidate of the position is excluded
C10_WitnessNone ==
    /\ TallyDone
    /\ response.result.winner = None
    /\ response.result.total_voters >= 1

\* C6: when candidates of a position have equal effective vote counts, the
\* order of the results list and the chosen winner are fully determined by
\* the set of ballots, candidates and exclusions: they are the same for
\* every order in which the voters of the position are enumerated.
C6_TieOrderIndependent ==
    TallyDone =>
        \A voters \in DistinctVoters(response.position_code) :
            LET other == compute_position_winner(
                             response.position_code, response.excluded,
                             [voters         |-> voters,
                              all_candidates |->
                                  FetchedCandidates(response.position_code)])
            IN  /\ other.results = response.result.results
                /\ other.winner = response.result.winner

(***************************************************************************)
(* Claims about compute_all_results, checked under Spec.                   *)
(***************************************************************************)
\* GET /admin/results has returned
ResultsShown == response.kind = "results"

\* C1: in one compute_all_results run the same person never wins two
\* positions: a person nominated for several positions who wins a
\* higher-priority position is not the winner of any position processed
\* afterwards.  Stated for winners that received at least one vote, so that
\* a winner reported for a position without ballots does not decide it.
C1_NoPersonWinsTwice ==
    ResultsShown =>
        \A i, j \in DOMAIN response.results :
            (/\ i < j
             /\ response.results[i].winner # None
             /\ response.results[j].winner # None
             /\ response.results[i].winner.votes >= 1
             /\ response.results[j].winner.votes >= 1)
            => response.results[i].winner.name # response.results[j].winner.name

\* C7: for a position that has zero ballots or zero candidates,
\* compute_all_results reports a result whose winner is none (so nothing is
\* added to the exclusion set for it), and every position is processed.
C7_NoBallotsNoWinner ==
    ResultsShown =>
        /\ Len(response.results) = Len(election_positions)
        /\ \A k \in DOMAIN response.results :
              (\/ VotersIn(election_positions[k].position_code) = {}
               \/ CandidatesOf(election_positions[k].position_code) = {})
              => response.results[k].winner = None

(***************************************************************************)
(* Claims about one compute_all_results run and about successive runs,     *)
(* checked under SpecRun.                                                  *)
(***************************************************************************)
\* the call of compute_all_results on the caller's connection
Run == requests[Caller]

\* the run has returned, and so has a run before it
TwoRuns == Run.pc = "returned" /\ Run.previous # None

\* the winner ids of the positions before the k-th in a list of results
WinnerIdsBefore(all_results, k) ==
    {all_results[j].winner.id :
        j \in {i \in 1 .. (k - 1) : all_results[i].winner # None}}

\* C11: the exclusion set used for the k-th position is exactly the set of
\* winner ids of positions 1..k-1 of the same run: it starts empty, a winner
\* is added only after its own position has been tallied, and a position's
\* own winner is never excluded from that position.
C11_ExclusionIsEarlierWinners ==
    Run.pc # "idle" =>
        /\ \A k \in DOMAIN Run.passed :
              /\ Run.passed[k] = WinnerIdsBefore(Run.all_results, k)
              /\ (k \in DOMAIN Run.all_results /\ Run.all_results[k].winner # None)
                    => Run.all_results[k].winner.id \notin Run.passed[k]
        /\ (Run.pc = "tallied" /\ Run.result.winner # None)
              => Run.result.winner.id \notin Run.passed[Len(Run.passed)]

\* a run has returned in which the second position was tallied with the
\* first position's winner, who received a vote, excluded
C11_Witness ==
    /\ Run.pc = "returned"
    /\ Len(Run.passed) = 2
    /\ Run.passed[1] = {}
    /\ Run.passed[2] # {}
    /\ Run.all_results[1].winner.votes >= 1

\* C12: across the positions of one run the exclusion set only grows, by at
\* most one element per position: the set passed to position k is a superset
\* of the one passed to position k-1 with at most one more element, and no
\* id is ever removed during the run.
C12_ExclusionMonotone ==
    [][requests[Caller].pc \in {"loop", "tallied"} =>
          /\ requests[Caller].excluded_candidates
                \subseteq requests'[Caller].excluded_candidates
          /\ Cardinality(requests'[Caller].excluded_candidates
                            \ requests[Caller].excluded_candidates) <= 1
          /\ \A k \in 2 .. Len(requests'[Caller].passed) :
                /\ requests'[Caller].passed[k - 1]
                      \subseteq requests'[Caller].passed[k]
                /\ Cardinality(requests'[Caller].passed[k]
                                  \ requests'[Caller].passed[k - 1]) <= 1]_vars

\* a run has added the winners of two positions, one after the other
C12_Witness ==
    /\ Run.pc = "returned"
    /\ Cardinality(Run.excluded_candidates) = 2
    /\ Cardinality(Run.passed[2]) = 1

\* C13: running compute_all_results twice on unchanged ballots, positions
\* and candidates returns identical result sequences; nothing carries over
\* from one run to the next.
C13_Idempotent ==
    (TwoRuns /\ Run.previous.on = Run.on)
        => Run.all_results = Run.previous.all_results

\* two runs on the same ballots, with two candidates of a position tied at
\* one vote each
C13_Witness ==
    /\ TwoRuns
    /\ Run.previous.on = Run.on
    /\ \E k \in DOMAIN Run.all_results :
          /\ Len(Run.all_results[k].results) >= 2
          /\ Run.all_results[k].results[1].votes = 1
          /\ Run.all_results[k].results[2].votes = 1

\* C14: the result for a position depends only on the ballots of that
\* position and of higher-priority positions: two runs whose ballot stores
\* differ only in the ballots of lower-priority positions give the same
\* result for it.
C14_LowerPriorityIrrelevant ==
    TwoRuns =>
        \A k \in DOMAIN Run.all_results :
            (\A j \in 1 .. k :
                Run.previous.on[election_positions[j].position_code]
                    = Run.on[election_positions[j].position_code])
            => Run.all_results[k] = Run.previous.all_results[k]

\* two runs between which a ballot for the second position came in, while
\* the first position kept its ballots
C14_Witness ==
    /\ TwoRuns
    /\ Run.previous.on[election_positions[1].position_code]
          = Run.on[election_positions[1].position_code]
    /\ Run.on[election_positions[1].position_code] # <<>>
    /\ Run.previous.on[election_positions[2].position_code]
          # Run.on[election_positions[2].position_code]

\* C15: compute_position_winner and compute_all_results change no stored
\* state: a step of a run, and a view of the results, leave the ballots,
\* the candidates, the positions and the saved winners as they are, and the
\* call of compute_position_winner leaves the caller's exclusion set as it
\* is.
C15_ReadOnly ==
    [][(requests' # requests \/ response'.kind = "results") =>
          /\ UNCHANGED <<candidates, ranked_votes, is_active, election_winners,
                         timeline>>
          /\ (requests' # requests /\ requests'[Caller].pc = "tallied")
                => requests'[Caller].excluded_candidates
                      = requests[Caller].excluded_candidates]_vars

\* the results were viewed while a snapshot was saved, after a run
C15_Witness ==
    /\ response.kind = "results"
    /\ election_winners # <<>>
    /\ response.winners # <<>>
    /\ Run.pc = "returned"

(***************************************************************************)
(* Claims about the saved winners, checked under SpecSave.                 *)
(***************************************************************************)
\* the rows a list of results has to leave in election_winners: one for
\* every result with a winner
WinnerRowSet(results) ==
    {[position_code  |-> results[k].position_code,
      candidate_id   |-> results[k].winner.id,
      candidate_name |-> results[k].winner.name,
      vote_count     |-> results[k].winner.votes] :
        k \in {i \in DOMAIN results : results[i].winner # None}}

\* the table holds these rows, each once, and no other
IsSnapshotOf(table, results) ==
    /\ {table[i] : i \in DOMAIN table} = WinnerRowSet(results)
    /\ Len(table) = Cardinality(WinnerRowSet(results))

\* the table is the complete output of the last committed save, or empty
\* before any
IsLastSaved(table) ==
    IF saved = None THEN table = <<>> ELSE IsSnapshotOf(table, saved)

\* C16: after save_election_winners(results) commits, the saved snapshot
\* contains only data from results: every row of an earlier snapshot is
\* gone, including rows for positions without a winner in the new results.
C16_SaveReplacesSnapshot ==
    response.kind = "saved" => IsSnapshotOf(election_winners, response.results)

\* a save has replaced a snapshot that had a row for a position which has
\* no winner in the new results, beside a position that has one
C16_Witness ==
    /\ response.kind = "saved"
    /\ \E i \in DOMAIN response.replaced, k \in DOMAIN response.results :
          /\ response.results[k].position_code
                = response.replaced[i].position_code
          /\ response.results[k].winner = None
    /\ \E k \in DOMAIN response.results : response.results[k].winner # None

\* C17: get_election_winners returns the last saved snapshot: empty before
\* any save, and after save_election_winners(results) one record per
\* position of results, in rank order, carrying that position's winner name
\* and vote count.
C17_OneRecordPerPosition ==
    response.kind = "winners" =>
        IF saved = None
        THEN response.winners = <<>>
        ELSE /\ Len(response.winners) = Len(saved)
             /\ \A k \in DOMAIN saved :
                   /\ k \in DOMAIN response.winners
                   /\ saved[k].winner # None
                   /\ response.winners[k].position_code = saved[k].position_code
                   /\ response.winners[k].candidate_name = saved[k].winner.name
                   /\ response.winners[k].vote_count = saved[k].winner.votes

\* C18: if save_election_winners fails after deleting the old rows or after
\* inserting only some new rows, the stored snapshot is afterwards the
\* complete previous snapshot, neither empty nor partially written, and the
\* caller gets the failure.
C18_FailedSaveKeepsSnapshot ==
    response.kind = "error" =>
        /\ election_winners = response.before
        /\ IsLastSaved(election_winners)

\* a save failed between two inserts while a snapshot was stored
C18_Witness ==
    /\ response.kind = "error"
    /\ response.before # <<>>
    /\ response.inserted >= 1
    /\ response.inserted < response.of

\* C19: under any interleaving of saves with readers, every read returns
\* the complete output of one single save, or the initial empty snapshot:
\* never a mixture of rows of two saves and never the state between the
\* DELETE and the inserts.
C19_ReadsSeeOneSave ==
    response.kind = "winners" =>
        IsLastSaved([i \in DOMAIN response.winners |->
                        [position_code  |-> response.winners[i].position_code,
                         candidate_id   |-> response.winners[i].candidate_id,
                         candidate_name |-> response.winners[i].candidate_name,
                         vote_count     |-> response.winners[i].vote_count]])

\* a snapshot was read while one connection had inserted some rows of other
\* results and the other connection waited to save
C19_Witness ==
    /\ response.kind = "winners"
    /\ response.during
    /\ response.winners # <<>>
    /\ \E c, other \in Connections :
          /\ Writing(c)
          /\ requests[c].inserted >= 1
          /\ requests[c].results # saved
          /\ requests[other].pc = "called"

(***************************************************************************)
(* Claims about ballots that rank foreign ids, checked under SpecStore.    *)
(***************************************************************************)
\* the ballot counts for cand_id when the ids that are no candidate of the
\* position are ignored: cand_id is its best-ranked id among the candidates
\* of the position outside excluded
CountsForRegistered(voter_hash, position_code, excluded, cand_id) ==
    \E r \in Ballot(voter_hash, position_code) :
        /\ r.candidate_id = cand_id
        /\ cand_id \notin excluded
        /\ IsCandidateOf(cand_id, position_code)
        /\ \A q \in Ballot(voter_hash, position_code) :
              (q.candidate_id \notin excluded
                 /\ IsCandidateOf(q.candidate_id, position_code))
              => r.preference_rank <= q.preference_rank

Irrelevant(position_code) ==
    AnyIds \ (CandidatesOf(position_code)
              \cup {r.candidate_id : r \in RowsIn(position_code)})

\* C21: adding to the exclusion set ids that are neither candidates of the
\* position nor ranked on any of its ballots does not change the result of
\* compute_position_winner for that position.
C21_IrrelevantExclusions ==
    TallyDone =>
        \A extra \in SUBSET Irrelevant(response.position_code) :
            compute_position_winner(response.position_code,
                                    response.excluded \cup extra,
                                    Fetched(response.position_code))
                = response.result

\* a tally with votes, under an exclusion set that holds a candidate of the
\* position, where a candidate of another position is neither excluded nor
\* ranked
C21_Witness ==
    /\ TallyDone
    /\ response.result.winner # None
    /\ response.result.winner.votes >= 1
    /\ response.excluded \cap CandidatesOf(response.position_code) # {}
    /\ (Irrelevant(response.position_code) \cap CandidateIds)
          \ response.excluded # {}

\* the rows of a ballot that rank an id the ballot has not ranked better
FirstOccurrences(voter_hash, position_code) ==
    {r \in Ballot(voter_hash, position_code) :
        \A q \in Ballot(voter_hash, position_code) :
            q.candidate_id = r.candidate_id
                => r.preference_rank <= q.preference_rank}

\* the ballot with its repetitions removed counts for cand_id
CountsWithoutRepeats(voter_hash, position_code, excluded, cand_id) ==
    \E r \in FirstOccurrences(voter_hash, position_code) :
        /\ r.candidate_id = cand_id
        /\ cand_id \notin excluded
        /\ \A q \in FirstOccurrences(voter_hash, position_code) :
              q.candidate_id \notin excluded
                 => r.preference_rank <= q.preference_rank

\* the ballot ranks an id more than once
HasRepeats(voter_hash, position_code) ==
    FirstOccurrences(voter_hash, position_code)
        # Ballot(voter_hash, position_code)

\* C22: a ballot that ranks the same candidate id more than once is tallied
\* exactly like the ballot with every later repetition removed: every
\* candidate gets the votes of the ballots whose first non-excluded id,
\* repetitions removed, it is, a ballot is exhausted when all its ids are
\* excluded, and no ballot gives more than one vote.
C22_RepeatsCountOnce ==
    TallyDone =>
        LET p == response.position_code
            r == response.result
        IN  /\ \A c \in CandidateIds :
                  VotesListed(r.results, c)
                    = Cardinality({h \in VotersIn(p) :
                         CountsWithoutRepeats(h, p, response.excluded, c)})
            /\ r.total_voters = Cardinality(VotersIn(p))
            /\ r.exhausted_votes
                  = Cardinality({h \in VotersIn(p) :
                       \A q \in FirstOccurrences(h, p) :
                          q.candidate_id \in response.excluded})
            /\ TotalListed(r.results) + r.exhausted_votes <= r.total_voters

\* a tally over a ballot that ranks a candidate twice with another between,
\* the repeated candidate being excluded, and the other one gets the vote
C22_Witness ==
    /\ TallyDone
    /\ \E h \in VotersIn(response.position_code) :
          /\ HasRepeats(h, response.position_code)
          /\ \E a, b \in Ballot(h, response.position_code) :
                /\ a.preference_rank = 1
                /\ a.candidate_id \in response.excluded
                /\ b.preference_rank = 2
                /\ b.candidate_id \notin response.excluded
                /\ VotesListed(response.result.results, b.candidate_id) >= 1

(***************************************************************************)
(* Claims about the recording of ballots, checked under SpecRecord and     *)
(* SpecBallots.                                                            *)
(***************************************************************************)
\* record_ranked_votes has returned
Recorded == response.kind = "record"

\* the rows a table holds for a voter and a position
BallotIn(table, voter_hash, position_code) ==
    IF position_code \in PositionCodes
    THEN {table[position_code][i] : i \in
            {j \in DOMAIN table[position_code] :
                table[position_code][j].voter_hash = voter_hash}}
    ELSE {}

\* the candidates table has a row with this id for this position
RegisteredFor(cand_id, position_code) ==
    \E id \in DOMAIN candidates :
        id = cand_id /\ candidates[id].category = position_code

\* C23: after any sequence of record_ranked_votes calls there is at most one
\* ballot per (voter_hash, position), no two rows of a voter and a position
\* having the same rank, and a call for a voter who already has rows for
\* that position returns failure and leaves the stored ballot unchanged.
C23_OneBallotPerVoter ==
    /\ \A h \in Range(VoterHashes), p \in PositionCodes :
          \A r, q \in BallotIn(ranked_votes, h, p) :
              r.preference_rank = q.preference_rank => r = q
    /\ (Recorded /\ BallotIn(response.before, response.voter_hash,
                             response.position_code) # {})
          => /\ ~response.success
             /\ ranked_votes = response.before

\* record_ranked_votes was called with another ranking of candidates of
\* the position for a voter who had a ballot for it, on a table without
\* UNIQUE constraints
C23_Witness ==
    /\ Recorded
    /\ unique_keys = {}
    /\ response.ranked_candidate_ids # <<>>
    /\ \A i \in DOMAIN response.ranked_candidate_ids :
          RegisteredFor(response.ranked_candidate_ids[i], response.position_code)
    /\ \E r \in BallotIn(response.before, response.voter_hash,
                         response.position_code) :
          /\ r.preference_rank = 1
          /\ r.candidate_id # response.ranked_candidate_ids[1]

\* C24: once a ranked ballot is recorded, no operation of the application
\* (further submissions, toggling positions, setting timelines, computing
\* and saving results) changes its candidate ids or their ranks, or removes
\* it.
C24_BallotsImmutable ==
    [][\A h \in Range(VoterHashes), p \in PositionCodes :
          BallotIn(ranked_votes, h, p) # {}
             => BallotIn(ranked_votes', h, p) = BallotIn(ranked_votes, h, p)]_vars

\* a position with a ballot has been closed and given a timeline, and the
\* results have been computed and saved
C24_Witness ==
    \E p \in PositionCodes :
        /\ ranked_votes[p] # <<>>
        /\ ~is_active[p]
        /\ timeline[p] # NoTimeline
        /\ saved # None
        /\ response.kind = "submit"

\* C25: record_ranked_votes stores a ballot only if every ranked id is a
\* candidate of that position; if any id is not, it returns failure and no
\* row of the ballot is stored, so every stored ballot ranks only
\* candidates of its own position.
C25_OnlyOwnCandidates ==
    /\ \A p \in PositionCodes :
          \A i \in DOMAIN ranked_votes[p] :
              /\ ranked_votes[p][i].position_code = p
              /\ RegisteredFor(ranked_votes[p][i].candidate_id, p)
    /\ Recorded =>
          /\ (\E i \in DOMAIN response.ranked_candidate_ids :
                 ~RegisteredFor(response.ranked_candidate_ids[i],
                                response.position_code))
                => (~response.success /\ ranked_votes = response.before)
          /\ response.success
                => ranked_votes[response.position_code]
                     = response.before[response.position_code]
                       \o [i \in DOMAIN response.ranked_candidate_ids |->
                            [voter_hash      |-> response.voter_hash,
                             position_code   |-> response.position_code,
                             candidate_id    |-> response.ranked_candidate_ids[i],
                             preference_rank |-> i]]

\* record_ranked_votes refused a ballot that ranks a candidate of the
\* position before a candidate of another position
C25_Witness ==
    /\ Recorded
    /\ ~response.success
    /\ response.message = "Invalid candidate ID"
    /\ Len(response.ranked_candidate_ids) = 2
    /\ RegisteredFor(response.ranked_candidate_ids[1], response.position_code)
    /\ response.ranked_candidate_ids[2] \in CandidateIds
    /\ ~RegisteredFor(response.ranked_candidate_ids[2], response.position_code)

\* voting for the position is open now: the flag is set, the opening time,
\* if there is one, has come and the closing time, if there is one, has not
\* passed
OpenNow(position_code) ==
    /\ is_active[position_code]
    /\ (timeline[position_code].opens_at # None
           => now >= timeline[position_code].opens_at.at)
    /\ (timeline[position_code].closes_at # None
           => now <= timeline[position_code].closes_at.at)

\* C27: a ballot is never recorded for a position that is closed at the
\* moment of recording, also when the admin's toggle_position and a
\* member's submit_ranked_vote interleave: every step that adds rows to
\* ranked_votes for a position is taken while the position is open.
C27_NoBallotWhileClosed ==
    [][\A p \in PositionCodes :
          ranked_votes'[p] # ranked_votes[p] => OpenNow(p)]_vars

\* the session is that of a user with is_admin set
AdminSession(cookie) ==
    /\ cookie # None
    /\ cookie.user_id \in DOMAIN users
    /\ users[cookie.user_id].is_admin

\* the admin password the server is configured with: ADMIN_PASSWORD, or
\* the development default when it is unset outside production; "" for
\* none
ConfiguredPassword ==
    IF environ.ADMIN_PASSWORD # "" THEN environ.ADMIN_PASSWORD
    ELSE IF environ.FLASK_ENV # "production" THEN "admin123"
    ELSE ""

\* C28: a session for the admin account is created only by a POST to
\* /admin/login that carries the configured admin password; with
\* FLASK_ENV=production and ADMIN_PASSWORD unset no request creates one.
C28_AdminSessionNeedsPassword ==
    [][\A b \in Browsers :
          (AdminSession(session'[b]) /\ ~AdminSession(session[b]))
             => /\ response'.kind = "admin_login"
                /\ ConfiguredPassword # ""
                /\ response'.password = ConfiguredPassword]_vars

\* the state the admin routes write
AdminState == <<election_winners, is_active, timeline>>

\* C29: the saved winners snapshot, the open/closed flags and the
\* timelines change only in a step taken while some session belongs to a
\* user with is_admin set, and a request to admin_compute_results,
\* admin_toggle_position or admin_set_timeline from a browser without such
\* a session is redirected and leaves them unchanged.
C29_AdminStateNeedsAdmin ==
    [][/\ AdminState' # AdminState
             => \E b \in Browsers : AdminSession(session[b])
       /\ \A b \in Browsers :
             (/\ ~AdminSession(session[b])
              /\ response' # response
              /\ response'.kind = "redirect"
              /\ response'.browser = b)
                => /\ AdminState' = AdminState
                   /\ response'.to = IF session[b] = None THEN "login"
                                     ELSE "ranked_dashboard"]_vars

\* a member, logged in, requested an admin route and was sent to the
\* dashboard, while nobody held an admin session
C29_Witness ==
    /\ response.kind = "redirect"
    /\ response.route \in {"admin_compute_results", "admin_toggle_position",
                           "admin_set_timeline"}
    /\ response.to = "ranked_dashboard"
    /\ session[response.browser] # None
    /\ \A b \in Browsers : ~AdminSession(session[b])
    /\ NumBallots > 0

====
